---- MODULE Spec2Model ----
(***************************************************************************)
(* A model of the ESRS table extraction pipeline of src/extract.py (the    *)
(* script that starts at line 197) and of its simplified variant           *)
(* src/部分成功.py.                                                        *)
(*                                                                         *)
(* Text is a sequence of one-character strings; offsets are Python's       *)
(* 0-based offsets, so the character at offset k of s is s[k + 1].         *)
(***************************************************************************)
EXTENDS Integers, Sequences, FiniteSets, TLC

(***************************************************************************)
(* Characters and the str methods the scripts use.                         *)
(***************************************************************************)
UpperChars == <<"A","B","C","D","E","F","G","H","I","J","K","L","M",
                "N","O","P","Q","R","S","T","U","V","W","X","Y","Z">>

LowerChars == <<"a","b","c","d","e","f","g","h","i","j","k","l","m",
                "n","o","p","q","r","s","t","u","v","w","x","y","z">>

Upper == {UpperChars[k] : k \in DOMAIN UpperChars}

Lower == {LowerChars[k] : k \in DOMAIN LowerChars}

Digit == {"0","1","2","3","4","5","6","7","8","9"}

\* \s of the re module, as far as the modelled texts go: blank, tab, newline
Space == {" ", "\t", "\n"}

\* \w of the re module: letters, digits and the underscore
Word == Upper \cup Lower \cup Digit \cup {"_"}

lower_char(c) ==
  IF c \in Upper THEN LowerChars[CHOOSE k \in DOMAIN UpperChars : UpperChars[k] = c]
  ELSE c

upper_char(c) ==
  IF c \in Lower THEN UpperChars[CHOOSE k \in DOMAIN LowerChars : LowerChars[k] = c]
  ELSE c

\* str.lower()
lower(s) == [k \in DOMAIN s |-> lower_char(s[k])]

\* str.upper()
upper(s) == [k \in DOMAIN s |-> upper_char(s[k])]

\* s[a:b] for 0 <= a, b
slice(s, a, b) == SubSeq(s, a + 1, IF b > Len(s) THEN Len(s) ELSE b)

\* s[a:]
slice_from(s, a) == SubSeq(s, a + 1, Len(s))

\* t occurs in s at offset i
occurs_at(s, t, i) ==
  /\ i >= 0
  /\ i + Len(t) <= Len(s)
  /\ \A k \in 1..Len(t) : s[i + k] = t[k]

Max(S) == CHOOSE x \in S : \A y \in S : y <= x

Min(S) == CHOOSE x \in S : \A y \in S : x <= y

\* s.find(t): the lowest offset where t occurs, or -1
find(s, t) ==
  LET offsets == {i \in 0..(Len(s) - Len(t)) : occurs_at(s, t, i)}
  IN  IF offsets = {} THEN -1 ELSE Min(offsets)

\* t in s
contains(s, t) == find(s, t) # -1

RECURSIVE lstrip(_)
lstrip(s) == IF s # <<>> /\ Head(s) \in Space THEN lstrip(Tail(s)) ELSE s

RECURSIVE rstrip(_)
rstrip(s) ==
  IF s # <<>> /\ s[Len(s)] \in Space THEN rstrip(SubSeq(s, 1, Len(s) - 1)) ELSE s

\* str.strip()
strip(s) == lstrip(rstrip(s))

RECURSIVE join(_, _)
\* sep.join(parts)
join(sep, parts) ==
  IF parts = <<>> THEN <<>>
  ELSE IF Len(parts) = 1 THEN parts[1]
  ELSE parts[1] \o sep \o join(sep, Tail(parts))

\* x in list
in_list(x, list) == \E k \in DOMAIN list : list[k] = x

(***************************************************************************)
(* The regular expressions.  Each pattern is an operator RE(s, i): the end *)
(* offset of the match of the pattern that starts at offset i of s, as the *)
(* backtracking matcher of the re module finds it, or -1 when the pattern  *)
(* does not match at i.                                                    *)
(***************************************************************************)
RECURSIVE run(_, _, _)
\* the number of consecutive characters of class C from offset i of s
run(s, i, C) ==
  IF i < Len(s) /\ s[i + 1] \in C THEN 1 + run(s, i + 1, C) ELSE 0

\* \b at offset i: exactly one side of the position is a word character
boundary(s, i) ==
  LET before == i > 0 /\ s[i] \in Word
      after  == i < Len(s) /\ s[i + 1] \in Word
  IN  before # after

\* the literal word w at offset i of s, under re.IGNORECASE
literal_ic(s, w, i) ==
  /\ i + Len(w) <= Len(s)
  /\ \A k \in 1..Len(w) : lower_char(s[i + k]) = lower_char(w[k])

\* ESRS_CODE_RE = \b[A-Z]{2,4}-\d+\b
ESRS_CODE_RE(s, i) ==
  LET letters == run(s, i, Upper)
      digits(k) == {d \in 1..run(s, i + k + 1, Digit) : boundary(s, i + k + 1 + d)}
      ks == {k \in 2..4 : /\ k <= letters
                          /\ i + k < Len(s)
                          /\ s[i + k + 1] = "-"
                          /\ digits(k) # {}}
  IN  IF ~boundary(s, i) \/ ks = {} THEN -1
      ELSE i + Max(ks) + 1 + Max(digits(Max(ks)))

RECURSIVE section_groups(_, _)
\* (\.\d+)+\b from offset p: greedy, giving digits and groups back until \b holds
section_groups(s, p) ==
  IF ~(p < Len(s) /\ s[p + 1] = ".") THEN -1
  ELSE LET try(d) == LET q == p + 1 + d
                         more == section_groups(s, q)
                     IN  IF more # -1 THEN more
                         ELSE IF boundary(s, q) THEN q
                         ELSE -1
           good == {d \in 1..run(s, p + 1, Digit) : try(d) # -1}
       IN  IF good = {} THEN -1 ELSE try(Max(good))

\* a word, \s+ and then one or more characters of class C, under re.IGNORECASE
word_then(s, w, C, i) ==
  LET at == i + Len(w)
      ws == {n \in 1..run(s, at, Space) : run(s, at + n, C) >= 1}
  IN  IF ~literal_ic(s, w, i) \/ ws = {} THEN -1
      ELSE at + Max(ws) + run(s, at + Max(ws), C)

\* SECTION_RE = (Section\s+[\d\.]+|\b\d+(\.\d+)+\b), re.IGNORECASE
SECTION_RE(s, i) ==
  LET named == word_then(s, <<"S","e","c","t","i","o","n">>, Digit \cup {"."}, i)
      ds == {d \in 1..run(s, i, Digit) : section_groups(s, i + d) # -1}
  IN  IF named # -1 THEN named
      ELSE IF ~boundary(s, i) \/ ds = {} THEN -1
      ELSE section_groups(s, i + Max(ds))

\* PARAGRAPH_RE = paragraph\s+\d+, re.IGNORECASE
PARAGRAPH_RE(s, i) ==
  word_then(s, <<"p","a","r","a","g","r","a","p","h">>, Digit, i)

\* PAGE_RE = page\s+\d+, re.IGNORECASE
PAGE_RE(s, i) == word_then(s, <<"p","a","g","e">>, Digit, i)

\* STANDALONE_NUMBER_RE = \b\d+\b
STANDALONE_NUMBER_RE(s, i) ==
  LET ds == {d \in 1..run(s, i, Digit) : boundary(s, i + d)}
  IN  IF ~boundary(s, i) \/ ds = {} THEN -1 ELSE i + Max(ds)

\* pattern.match(s, i) at every offset i of s: the end offsets, -1 for no match
ESRS_CODE_RE_at(s) == [i \in 0..(Len(s) - 1) |-> ESRS_CODE_RE(s, i)]

SECTION_RE_at(s) == [i \in 0..(Len(s) - 1) |-> SECTION_RE(s, i)]

PARAGRAPH_RE_at(s) == [i \in 0..(Len(s) - 1) |-> PARAGRAPH_RE(s, i)]

PAGE_RE_at(s) == [i \in 0..(Len(s) - 1) |-> PAGE_RE(s, i)]

STANDALONE_NUMBER_RE_at(s) == [i \in 0..(Len(s) - 1) |-> STANDALONE_NUMBER_RE(s, i)]

\* pattern.search(s), from the matches at every offset: the leftmost match as
\* <<start, end>>, or <<>> for None
re_search(ends) ==
  LET starts == {i \in DOMAIN ends : ends[i] # -1}
  IN  IF starts = {} THEN <<>> ELSE <<Min(starts), ends[Min(starts)]>>

\* the spans <<start, end>> of the non-overlapping matches pattern.findall(s) scans:
\* each match is the leftmost one that starts at or after the end of the one before
re_spans(ends) ==
  LET starts == {i \in DOMAIN ends : ends[i] # -1}
      scan[from \in 0..Cardinality(DOMAIN ends)] ==
        LET rest == {i \in starts : i >= from}
        IN  IF rest = {} THEN <<>>
            ELSE << <<Min(rest), ends[Min(rest)]>> >> \o scan[ends[Min(rest)]]
  IN  scan[0]

\* pattern.findall(s) (for SECTION_RE: the first group of each tuple, the whole match)
re_findall(s, ends) ==
  LET spans == re_spans(ends)
  IN  [k \in DOMAIN spans |-> slice(s, spans[k][1], spans[k][2])]

\* match.group(0)
group0(s, m) == slice(s, m[1], m[2])

(***************************************************************************)
(* Values of the Python program.                                           *)
(***************************************************************************)
\* None
None == <<"None">>

\* NaN, the value pandas gives an empty cell of a CSV file
NaN == <<"NaN">>

\* bool(x) of a str or None
truthy(x) == x # None /\ x # <<>>

\* bool(x) of a list
nonempty(x) == x # <<>>

\* dict as the sequence of its <<key, value>> items in insertion order
dict_keys(d) == [k \in DOMAIN d |-> d[k][1]]

\* d.get(key)
dict_get(d, key) ==
  IF \E k \in DOMAIN d : d[k][1] = key
  THEN d[CHOOSE k \in DOMAIN d : d[k][1] = key][2]
  ELSE None

\* d[key] = value: an existing key keeps its place, a new key goes last
dict_set(d, key, value) ==
  IF \E k \in DOMAIN d : d[k][1] = key
  THEN [k \in DOMAIN d |-> IF d[k][1] = key THEN <<key, value>> ELSE d[k]]
  ELSE Append(d, <<key, value>>)

RECURSIVE insert_by_len(_, _)
\* x put into a list sorted by descending length, after the items as long as x
insert_by_len(x, sorted) ==
  IF sorted = <<>> THEN <<x>>
  ELSE IF Len(Head(sorted)) >= Len(x) THEN <<Head(sorted)>> \o insert_by_len(x, Tail(sorted))
  ELSE <<x>> \o sorted

RECURSIVE sorted_by_len_desc(_)
\* sorted(items, key=len, reverse=True): stable, equal lengths keep their order
sorted_by_len_desc(items) ==
  IF items = <<>> THEN <<>>
  ELSE insert_by_len(items[Len(items)],
                     sorted_by_len_desc(SubSeq(items, 1, Len(items) - 1)))

\* re.sub(r"\s+", " ", s): a blank for the first character of each run of
\* whitespace, nothing for the rest of the run
collapse_spaces(s) ==
  LET kept == SelectSeq([k \in DOMAIN s |-> k],
                        LAMBDA k : s[k] \notin Space \/ k = 1 \/ s[k - 1] \notin Space)
  IN  [n \in DOMAIN kept |-> IF s[kept[n]] \in Space THEN " " ELSE s[kept[n]]]

(***************************************************************************)
(* load_dr_list.  A reference list file is a record: exists (the path is   *)
(* there), parses (pd.read_csv returns), columns (the header names) and    *)
(* rows (one cell per column, NaN for an empty cell).                      *)
(***************************************************************************)
potential_disclosure_cols ==
  << <<"D","i","s","c","l","o","s","u","r","e"," ","r","e","q","u","i","r","e","m","e","n","t"," ","a","n","d"," ","r","e","l","a","t","e","d"," ","d","a","t","a","p","o","i","n","t">>,
     <<"D","i","s","c","l","o","s","u","r","e"," ","r","e","q","u","i","r","e","m","e","n","t">>,
     <<"C","S","R","D"," ","D","i","s","c","l","o","s","u","r","e"," ","r","e","q","u","i","r","e","m","e","n","t">> >>

potential_esrs_code_cols ==
  << <<"E","S","R","S"," ","a","n","d"," ","p","a","r","a","g","r","a","p","h"," ","n","u","m","b","e","r">>,
     <<"E","S","R","S"," ","C","o","d","e">>,
     <<"E","S","R","S">> >>

\* any(p_col.lower() in col.lower() for p_col in potential)
col_matches(col, potential) ==
  \E k \in DOMAIN potential : contains(lower(col), lower(potential[k]))

\* the first column the loop of lines 253-259 assigns, 0 for None
first_col(columns, potential) ==
  LET hits == {c \in DOMAIN columns : col_matches(columns[c], potential)}
  IN  IF hits = {} THEN 0 ELSE Min(hits)

\* dr_df[col].dropna().tolist()
dropna_tolist(rows, col) ==
  LET keep == {r \in DOMAIN rows : rows[r][col] # NaN}
      nth[n \in 0..Len(rows)] ==
        IF n = 0 THEN <<>>
        ELSE IF n \in keep THEN Append(nth[n - 1], rows[n][col])
        ELSE nth[n - 1]
  IN  nth[Len(rows)]

RECURSIVE build_mapping(_, _, _, _)
\* the loop of lines 264-270 over the rows that have both cells
build_mapping(rows, dcol, ccol, mapping) ==
  IF rows = <<>> THEN mapping
  ELSE LET row == Head(rows)
           disclosure_text == strip(row[dcol])
           esrs_code_cell == strip(row[ccol])
           match == re_search(ESRS_CODE_RE_at(esrs_code_cell))
       IN  IF row[dcol] = NaN \/ row[ccol] = NaN \/ match = <<>>
           THEN build_mapping(Tail(rows), dcol, ccol, mapping)
           ELSE build_mapping(Tail(rows), dcol, ccol,
                              dict_set(mapping, disclosure_text,
                                       group0(esrs_code_cell, match)))

\* load_dr_list without the except clause of lines 285-287: an error of
\* pd.read_csv reaches the caller
load_dr_list_uncaught(file) ==
  LET empty == [esrs_disclosure_texts |-> <<>>,
                disclosure_to_code_mapping |-> <<>>,
                raised |-> FALSE]
      disclosure_col == first_col(file.columns, potential_disclosure_cols)
      esrs_code_col == first_col(file.columns, potential_esrs_code_cols)
  IN  IF ~file.exists THEN empty
      ELSE IF ~file.parses THEN [empty EXCEPT !.raised = TRUE]
      ELSE IF disclosure_col # 0 /\ esrs_code_col # 0
      THEN [esrs_disclosure_texts |-> dropna_tolist(file.rows, disclosure_col),
            disclosure_to_code_mapping |->
              build_mapping(file.rows, disclosure_col, esrs_code_col, <<>>),
            raised |-> FALSE]
      ELSE empty

\* what load_dr_list leaves in the two globals, and whether it raised
load_dr_list(file) ==
  LET empty == [esrs_disclosure_texts |-> <<>>,
                disclosure_to_code_mapping |-> <<>>,
                raised |-> FALSE]
      disclosure_col == first_col(file.columns, potential_disclosure_cols)
      esrs_code_col == first_col(file.columns, potential_esrs_code_cols)
  IN  IF ~file.exists THEN empty
      ELSE IF ~file.parses THEN empty
      ELSE IF disclosure_col # 0 /\ esrs_code_col # 0
      THEN [esrs_disclosure_texts |-> dropna_tolist(file.rows, disclosure_col),
            disclosure_to_code_mapping |->
              build_mapping(file.rows, disclosure_col, esrs_code_col, <<>>),
            raised |-> FALSE]
      ELSE empty

(***************************************************************************)
(* process_table_for_esrs.  A table (tbl.df) is a sequence of rows, a row  *)
(* a sequence of cell texts.                                               *)
(***************************************************************************)
\* the lambda of line 346: re.sub(r"\s+", " ", str(x).strip())
normalize_cell(x) == collapse_spaces(strip(x))

\* row_text_of joining the cells with nothing between them
row_text_unseparated(row) == join(<<>>, [c \in DOMAIN row |-> normalize_cell(row[c])])

\* line 350: " ".join(str(cell) for cell in row.tolist()) on the normalized cells
row_text_of(row) == join(<<" ">>, [c \in DOMAIN row |-> normalize_cell(row[c])])

\* is_candidate without the comparison of the mapped code with the code of the row
is_candidate_of_any_code(dr_text, row_text, found_esrs_code, mapping) ==
  contains(lower(row_text), lower(dr_text))

\* the test of line 375 on one disclosure text
is_candidate(dr_text, row_text, found_esrs_code, mapping) ==
  /\ dict_get(mapping, dr_text) = found_esrs_code
  /\ contains(lower(row_text), lower(dr_text))

\* is_better without the test of the start of the match
is_better_by_length(match_start_index, dr_text, best) ==
  /\ match_start_index # -1
  /\ \/ best.text = None
     \/ Len(dr_text) > Len(best.text)

\* the test of line 378: this match is better than the best one so far
is_better(match_start_index, dr_text, best) ==
  /\ match_start_index # -1
  /\ \/ best.text = None
     \/ match_start_index < best.index
     \/ Len(dr_text) > Len(best.text)

RECURSIVE best_match(_, _, _, _, _)
\* the loop of lines 373-380: best_match_text and best_match_index after it
best_match(sorted_dr_texts, row_text, found_esrs_code, mapping, best) ==
  IF sorted_dr_texts = <<>> THEN best
  ELSE LET dr_text == Head(sorted_dr_texts)
           match_start_index == find(lower(row_text), lower(dr_text))
           next == IF /\ is_candidate(dr_text, row_text, found_esrs_code, mapping)
                      /\ is_better(match_start_index, dr_text, best)
                   THEN [text |-> dr_text, index |-> match_start_index]
                   ELSE best
       IN  best_match(Tail(sorted_dr_texts), row_text, found_esrs_code, mapping, next)

RECURSIVE unique_stripped(_, _)
\* the loops of lines 398-408: strip each match, keep the first of equal ones
unique_stripped(found, refs) ==
  IF found = <<>> THEN refs
  ELSE LET ref == strip(Head(found))
       IN  unique_stripped(Tail(found),
                           IF truthy(ref) /\ ~in_list(ref, refs)
                           THEN Append(refs, ref) ELSE refs)

RECURSIVE page_numbers(_, _)
\* the loop of lines 411-418: the number of each "page N" match
page_numbers(found_pages, page_refs) ==
  IF found_pages = <<>> THEN page_refs
  ELSE LET page_ref_str == strip(Head(found_pages))
           page_num_match == re_search(STANDALONE_NUMBER_RE_at(page_ref_str))
           page_num == group0(page_ref_str, page_num_match)
       IN  page_numbers(Tail(found_pages),
                        IF page_num_match # <<>> /\ truthy(page_num)
                           /\ ~in_list(page_num, page_refs)
                        THEN Append(page_refs, page_num) ELSE page_refs)

\* is_part_of_other_ref without the loop over found_pages of lines 431-433
is_part_of_section_or_paragraph(num, section_refs, paragraph_refs, found_pages) ==
  \/ \E k \in DOMAIN section_refs : contains(section_refs[k], num)
  \/ \E k \in DOMAIN paragraph_refs : contains(paragraph_refs[k], num)

\* is_part_of_other_ref taking num only when it is a whole number of a reference
is_number_of_other_ref(num, section_refs, paragraph_refs, found_pages) ==
  LET refs == section_refs \o paragraph_refs \o found_pages
  IN  \E k \in DOMAIN refs :
        in_list(num, re_findall(refs[k], STANDALONE_NUMBER_RE_at(refs[k])))

\* lines 426-433: num is a substring of a captured reference
is_part_of_other_ref(num, section_refs, paragraph_refs, found_pages) ==
  \/ \E k \in DOMAIN section_refs : contains(section_refs[k], num)
  \/ \E k \in DOMAIN paragraph_refs : contains(paragraph_refs[k], num)
  \/ \E k \in DOMAIN found_pages : contains(found_pages[k], num)

RECURSIVE standalone_numbers(_, _, _, _, _)
\* the loop of lines 424-436
standalone_numbers(found_numbers, section_refs, paragraph_refs, found_pages, other_refs) ==
  IF found_numbers = <<>> THEN other_refs
  ELSE LET num == Head(found_numbers)
       IN  standalone_numbers(Tail(found_numbers), section_refs, paragraph_refs, found_pages,
             IF /\ ~is_part_of_other_ref(num, section_refs, paragraph_refs, found_pages)
                /\ ~in_list(num, other_refs)
             THEN Append(other_refs, num) ELSE other_refs)

\* relevance without the test of found_esrs_code
relevance_without_code(found_esrs_code, matched_disclosure_text, section_refs, page_refs, paragraph_refs) ==
  \/ truthy(matched_disclosure_text)
  \/ nonempty(section_refs)
  \/ nonempty(page_refs)
  \/ nonempty(paragraph_refs)

\* line 445: the filtering heuristic
relevance(found_esrs_code, matched_disclosure_text, section_refs, page_refs, paragraph_refs) ==
  /\ truthy(found_esrs_code)
  /\ \/ truthy(matched_disclosure_text)
     \/ nonempty(section_refs)
     \/ nonempty(page_refs)
     \/ nonempty(paragraph_refs)

\* text_after from the start of the matched text on
text_from_match(row_text, best_match_index, matched_disclosure_text) ==
  slice_from(row_text, best_match_index)

\* line 385: row_text[best_match_index + len(matched_disclosure_text):]
text_after(row_text, best_match_index, matched_disclosure_text) ==
  slice_from(row_text, best_match_index + Len(matched_disclosure_text))

\* the local variables of one iteration of the loop of line 349
process_row(row, texts, mapping) ==
  LET row_text == row_text_of(row)
      esrs_code_match == re_search(ESRS_CODE_RE_at(row_text))
      found_esrs_code == IF esrs_code_match # <<>> THEN group0(row_text, esrs_code_match)
                         ELSE None
      searched == nonempty(texts) /\ truthy(found_esrs_code)
      best == IF searched
              THEN best_match(sorted_by_len_desc(dict_keys(mapping)), row_text,
                              found_esrs_code, mapping, [text |-> None, index |-> -1])
              ELSE [text |-> None, index |-> -1]
      matched_disclosure_text == IF truthy(best.text) THEN best.text ELSE None
      reference_search_text ==
        IF truthy(best.text) THEN text_after(row_text, best.index, matched_disclosure_text)
        ELSE row_text
      section_refs == unique_stripped(re_findall(reference_search_text, SECTION_RE_at(reference_search_text)), <<>>)
      paragraph_refs == unique_stripped(re_findall(reference_search_text, PARAGRAPH_RE_at(reference_search_text)), <<>>)
      found_pages == re_findall(reference_search_text, PAGE_RE_at(reference_search_text))
      page_refs == page_numbers(found_pages, <<>>)
      other_refs == standalone_numbers(re_findall(reference_search_text, STANDALONE_NUMBER_RE_at(reference_search_text)),
                                       section_refs, paragraph_refs, found_pages, <<>>)
  IN  [row_text |-> row_text,
       found_esrs_code |-> found_esrs_code,
       best_match_text |-> best.text,
       best_match_index |-> best.index,
       matched_disclosure_text |-> matched_disclosure_text,
       reference_search_text |-> reference_search_text,
       section_refs |-> section_refs,
       paragraph_refs |-> paragraph_refs,
       found_pages |-> found_pages,
       page_refs |-> page_refs,
       other_refs |-> other_refs,
       is_relevant |-> relevance(found_esrs_code, matched_disclosure_text,
                                 section_refs, page_refs, paragraph_refs)]

\* lines 449-458: the dictionary appended for a relevant row
extracted_entry(v, page) ==
  [ESRS_Code |-> v.found_esrs_code,
   Matched_Disclosure_Text |-> IF truthy(v.matched_disclosure_text)
                               THEN v.matched_disclosure_text ELSE <<>>,
   Section_Reference |-> join(<<" ", "|", " ">>, v.section_refs),
   Page_Reference |-> join(<<" ", "|", " ">>, v.page_refs),
   Paragraph_Reference |-> join(<<" ", "|", " ">>, v.paragraph_refs),
   Other_Reference |-> join(<<" ", "|", " ">>, v.other_refs),
   Source_Page |-> page,
   Source_Row_Text |-> v.row_text]

\* the local variables of every iteration, in row order
table_locals(df, texts, mapping) ==
  [r \in DOMAIN df |-> process_row(df[r], texts, mapping)]

RECURSIVE relevant_entries(_, _)
relevant_entries(locals, page) ==
  IF locals = <<>> THEN <<>>
  ELSE (IF Head(locals).is_relevant THEN <<extracted_entry(Head(locals), page)>> ELSE <<>>)
       \o relevant_entries(Tail(locals), page)

\* process_table_for_esrs(df, page): extracted_data
process_table_for_esrs(df, page, texts, mapping) ==
  relevant_entries(table_locals(df, texts, mapping), page)

(***************************************************************************)
(* find_esrs_pages.  A document is a record: exists (os.path.exists),      *)
(* opens (pdfplumber.open returns) and pages, the result of extract_text() *)
(* for each page: a text, None, or Raises when the call raises.            *)
(***************************************************************************)
Raises == <<"raise">>

ESRS == <<"E","S","R","S">>

\* line 318 (and line 15 of the variant): "ESRS" in text.upper()
mentions_esrs(text) == contains(upper(text), ESRS)

\* line 326: any(dr_text.lower() in text.lower() for dr_text in esrs_disclosure_texts)
mentions_disclosure(text, texts) ==
  \E k \in DOMAIN texts : contains(lower(text), lower(texts[k]))

\* select_page without the "not in pages" tests of lines 319 and 327
select_page_appending(i, text, pages, texts) ==
  LET first == IF mentions_esrs(text) THEN Append(pages, i) ELSE pages
  IN  IF nonempty(texts) /\ mentions_disclosure(text, texts)
      THEN Append(first, i)
      ELSE first

\* lines 318-328 for page i: pages after the two appends
select_page(i, text, pages, texts) ==
  LET first == IF mentions_esrs(text) /\ ~in_list(i, pages) THEN Append(pages, i)
               ELSE pages
  IN  IF nonempty(texts) /\ mentions_disclosure(text, texts) /\ ~in_list(i, first)
      THEN Append(first, i)
      ELSE first

RECURSIVE scan_pages(_, _, _, _)
\* the loop of lines 315-328 from page i on: pages, and whether a page raised
scan_pages(doc_pages, i, pages, texts) ==
  IF i > Len(doc_pages) THEN [pages |-> pages, raised |-> FALSE]
  ELSE IF doc_pages[i] = Raises THEN [pages |-> pages, raised |-> TRUE]
  ELSE LET text == IF doc_pages[i] = None THEN <<>> ELSE doc_pages[i]
       IN  scan_pages(doc_pages, i + 1, select_page(i, text, pages, texts), texts)

\* find_esrs_pages(pdf_path) of extract.py: the except clause returns []
find_esrs_pages(doc, texts) ==
  LET scan == scan_pages(doc.pages, 1, <<>>, texts)
  IN  IF ~doc.opens \/ scan.raised THEN <<>> ELSE scan.pages

RECURSIVE simple_scan_pages(_, _, _)
\* the loop of lines 13-16 of the variant
simple_scan_pages(doc_pages, i, pages) ==
  IF i > Len(doc_pages) THEN [pages |-> pages, raised |-> FALSE]
  ELSE IF doc_pages[i] = Raises THEN [pages |-> pages, raised |-> TRUE]
  ELSE LET text == IF doc_pages[i] = None THEN <<>> ELSE doc_pages[i]
       IN  simple_scan_pages(doc_pages, i + 1,
                             IF mentions_esrs(text) THEN Append(pages, i) ELSE pages)

\* find_esrs_pages(pdf_path) of the variant: no except clause, an error propagates
simple_find_esrs_pages(doc) ==
  IF doc.opens THEN simple_scan_pages(doc.pages, 1, <<>>)
  ELSE [pages |-> <<>>, raised |-> TRUE]

(***************************************************************************)
(* extract_tables_on_page.  What camelot.read_pdf does on a page is a      *)
(* record: error (the message of the exception it raises, None when it     *)
(* returns) and tables (the tables it returns).                            *)
(***************************************************************************)
NO_TABLES_FOUND == <<"N","o"," ","t","a","b","l","e","s"," ","f","o","u","n","d"," ","o","n"," ","p","a","g","e">>

\* extract_tables_on_page(pdf_path, page, flavor): the tables returned and the
\* number of lines printed
extract_tables_on_page(outcome) ==
  IF outcome.error = None THEN [tables |-> outcome.tables, printed |-> 0]
  ELSE [tables |-> <<>>,
        printed |-> IF ~contains(outcome.error, NO_TABLES_FOUND) THEN 1 ELSE 0]

\* combine_tables leaving out the stream tables the lattice flavor has found too
combine_tables_distinct(lattice, stream) ==
  lattice \o SelectSeq(stream, LAMBDA tbl : ~in_list(tbl, lattice))

\* combine_tables with the stream tables first
combine_tables_stream_first(lattice, stream) ==
  (IF nonempty(stream) THEN stream ELSE <<>>) \o (IF nonempty(lattice) THEN lattice ELSE <<>>)

\* lines 486-490: the tables of both flavors, lattice first
combine_tables(lattice, stream) ==
  (IF nonempty(lattice) THEN lattice ELSE <<>>) \o (IF nonempty(stream) THEN stream ELSE <<>>)

(***************************************************************************)
(* The inputs: reference list files, documents, camelot outcomes.          *)
(***************************************************************************)
\* the longest document, in pages
MaxPages == 2

\* the numbers main() lists the files of the pdfs directory under
FileNumbers == {1, 2}

MissingFile == [exists |-> FALSE, parses |-> FALSE, columns |-> <<>>, rows |-> <<>>]

UnreadableFile == [exists |-> TRUE, parses |-> FALSE, columns |-> <<>>, rows |-> <<>>]

\* the reference list of the loading scenario: one row, ("Climate policy", "E1-1 §14")
ClimateFile ==
  [exists |-> TRUE, parses |-> TRUE,
   columns |-> << <<"D","i","s","c","l","o","s","u","r","e"," ","r","e","q","u","i","r","e","m","e","n","t"," ","a","n","d"," ","r","e","l","a","t","e","d"," ","d","a","t","a","p","o","i","n","t">>,
                  <<"E","S","R","S"," ","a","n","d"," ","p","a","r","a","g","r","a","p","h"," ","n","u","m","b","e","r">> >>,
   rows |-> << << <<"C","l","i","m","a","t","e"," ","p","o","l","i","c","y">>, <<"E","1","-","1"," ","§","1","4">> >> >>]

\* a reference list without a disclosure column
NoDisclosureColumnFile ==
  [exists |-> TRUE, parses |-> TRUE,
   columns |-> << <<"N","a","m","e">>, <<"E","S","R","S"," ","C","o","d","e">> >>,
   rows |-> << << <<"G","o","v","e","r","n","a","n","c","e"," ","r","o","l","e">>, <<"G","O","V","-","1">> >> >>]

\* a reference list with other header spellings, blanks to strip and empty cells
GovernanceFile ==
  [exists |-> TRUE, parses |-> TRUE,
   columns |-> << <<"I","D">>, <<"C","S","R","D"," ","d","i","s","c","l","o","s","u","r","e"," ","r","e","q","u","i","r","e","m","e","n","t">>, <<"e","s","r","s"," ","c","o","d","e">> >>,
   rows |-> << << <<"1">>, <<"G","o","v","e","r","n","a","n","c","e"," ","r","o","l","e">>, <<"E","S","R","S"," ","2"," ","G","O","V","-","1"," ","§","2","1">> >>,
               << <<"2">>, <<" ","G","o","v","e","r","n","a","n","c","e"," ">>, <<"G","O","V","-","2">> >>,
               << <<"3">>, NaN, <<"B","P","-","1">> >>,
               << <<"4">>, <<"B","a","s","i","s">>, NaN >> >>]

\* a reference list with several texts for one code: one inside another, two that
\* differ in case only, a short one
TieBreakFile ==
  [exists |-> TRUE, parses |-> TRUE,
   columns |-> << <<"D","i","s","c","l","o","s","u","r","e"," ","r","e","q","u","i","r","e","m","e","n","t">>, <<"E","S","R","S"," ","C","o","d","e">> >>,
   rows |-> << << <<"G","o","v","e","r","n","a","n","c","e"," ","r","o","l","e">>, <<"G","O","V","-","1">> >>,
               << <<"s","e","e">>, <<"G","O","V","-","1">> >>,
               << <<"G","o","v","e","r","n","a","n","c","e">>, <<"G","O","V","-","1">> >>,
               << <<"G","O","V","E","R","N","A","N","C","E">>, <<"G","O","V","-","1">> >> >>]

\* a reference list with a disclosure cell of blanks only
BlankTextFile ==
  [exists |-> TRUE, parses |-> TRUE,
   columns |-> << <<"D","i","s","c","l","o","s","u","r","e"," ","r","e","q","u","i","r","e","m","e","n","t">>, <<"E","S","R","S"," ","C","o","d","e">> >>,
   rows |-> << << <<"G","o","v","e","r","n","a","n","c","e"," ","r","o","l","e">>, <<"G","O","V","-","1">> >>,
               << <<" "," ">>, <<"G","O","V","-","1">> >> >>]

\* the reference list files of a whole run
ReferenceFiles == {MissingFile, ClimateFile, GovernanceFile}

\* the reference list files load_dr_list is checked on: every layout of one or two
\* of these headers, every list of rows of these cells
Headers ==
  { <<"D","i","s","c","l","o","s","u","r","e"," ","R","e","q","u","i","r","e","m","e","n","t">>,
    <<"e","s","r","s"," ","c","o","d","e">>,
    <<"E","S","R","S"," ","d","i","s","c","l","o","s","u","r","e"," ","r","e","q","u","i","r","e","m","e","n","t">>,
    <<"N","a","m","e">> }

ListCells ==
  { NaN,
    <<" ","G","o","v","e","r","n","a","n","c","e"," ","r","o","l","e"," ">>,
    <<"E","S","R","S"," ","2"," ","G","O","V","-","1"," ","§","2","1">> }

\* the longest generated reference list, in rows
MaxListRows == 2

ColumnLayouts ==
  {<<h>> : h \in Headers}
  \cup {layout \in Headers \X Headers : layout[1] # layout[2]}

GeneratedFiles ==
  UNION {{[exists |-> TRUE, parses |-> TRUE, columns |-> columns, rows |-> rows] :
            rows \in UNION {[1..n -> [DOMAIN columns -> ListCells]] : n \in 0..MaxListRows}} :
         columns \in ColumnLayouts}

LoadFiles ==
  {MissingFile, UnreadableFile, ClimateFile, NoDisclosureColumnFile, GovernanceFile}
  \cup GeneratedFiles

\* what page.extract_text() gives
PageResults ==
  { None,
    Raises,
    <<"A","n","n","u","a","l"," ","r","e","p","o","r","t">>,
    <<"E","s","r","s"," ","i","n","d","e","x">>,
    <<"o","u","r"," ","G","O","V","E","R","N","A","N","C","E"," ","R","O","L","E">>,
    <<"E","S","R","S"," ","E","1"," ","c","l","i","m","a","t","e"," ","p","o","l","i","c","y">> }

PageSequences == UNION {[1..n -> PageResults] : n \in 0..MaxPages}

Documents ==
  {[exists |-> FALSE, opens |-> FALSE, pages |-> <<>>],
   [exists |-> TRUE, opens |-> FALSE, pages |-> <<>>]}
  \cup {[exists |-> TRUE, opens |-> TRUE, pages |-> ps] : ps \in PageSequences}

\* the table of the end-to-end scenario
GovTable ==
  << << <<"E","S","R","S"," ","2"," ","G","O","V","-","1">>, <<"S","e","c","t","i","o","n"," ","3",".","1",".","1",".","3">> >>,
     << <<"S","o","m","e"," ","o","t","h","e","r"," ","t","e","x","t">>, <<>> >> >>

\* rows that carry disclosure texts of GovernanceFile and references after them
ReferenceTable ==
  << << <<"G","O","V","-","1">>, <<"G","o","v","e","r","n","a","n","c","e","\t","r","o","l","e">>, <<" ","s","e","e"," ","S","e","c","t","i","o","n"," ","3",".","1",".","1"," "," ","a","n","d"," ","p","a","g","e"," ","4","2">> >>,
     << <<"G","O","V","-","2">>, <<"G","o","v","e","r","n","a","n","c","e"," ","r","o","l","e">>, <<"p","a","r","a","g","r","a","p","h"," ","1","4"," ","1">> >> >>

\* rows with a code and nothing but a standalone number, and without a code
NumberTable ==
  << << <<"B","P","-","1">>, <<"1","2">> >>,
     << <<"T","o","t","a","l">>, <<"p","a","g","e"," ","7">> >> >>

\* camelot.read_pdf finding nothing: two exceptions and an empty TableList
NothingFound ==
  { [error |-> <<"N","o"," ","t","a","b","l","e","s"," ","f","o","u","n","d"," ","o","n"," ","p","a","g","e","-","1">>, tables |-> <<>>],
    [error |-> <<"P","D","F"," ","s","y","n","t","a","x"," ","e","r","r","o","r">>, tables |-> <<>>],
    [error |-> None, tables |-> <<>>] }

\* what the lattice flavor can do on a page: it finds the ruled table or nothing
LatticeOutcomes ==
  NothingFound \cup {[error |-> None, tables |-> <<GovTable>>]}

\* what the stream flavor can do on a page: it finds the ruled table too, or the
\* tables laid out with blanks, or nothing
StreamOutcomes ==
  NothingFound \cup {[error |-> None, tables |-> <<GovTable>>],
                     [error |-> None, tables |-> <<ReferenceTable, NumberTable>>]}

\* the cells of the table rows process_table_for_esrs is checked on
RowCells ==
  { <<"E","S","R","S"," ","2"," ","G","O","V","-","1">>,
    <<"G","O","V","-","2">>,
    <<"G","o","v","e","r","n","a","n","c","e"," ","r","o","l","e">>,
    <<"g","o","v","e","r","n","a","n","c","e">>,
    <<"s","e","e"," ","S","e","c","t","i","o","n"," ","3",".","1",".","1"," ","a","n","d"," ","p","a","g","e"," ","4","2">>,
    <<"p","a","r","a","g","r","a","p","h"," ","1","4">>,
    <<"1"," ","1","2">>,
    <<>> }

\* the widest generated table row, in cells
MaxCells == 3

GeneratedRows == UNION {[1..n -> RowCells] : n \in 1..MaxCells}

\* the reference lists the generated rows are classified against
RowFiles == {MissingFile, ClimateFile, GovernanceFile, TieBreakFile, BlankTextFile}

\* what the user can enter at the prompt: numbers of listed files, in any order,
\* a number more than once too
Selections ==
  {<<f>> : f \in FileNumbers} \cup {<<f, g>> : f \in FileNumbers, g \in FileNumbers}

(***************************************************************************)
(* The state of a run.                                                     *)
(***************************************************************************)
VARIABLES
  script,                     \* which script runs: "extract.py" or the variant
  pc,                         \* the position of the run
  dr_list_file,               \* the reference list file main() loads
  esrs_disclosure_texts,      \* global, line 218
  disclosure_to_code_mapping, \* global, line 219
  load_raised,                \* load_dr_list raised to main()
  pdf_files_to_process,       \* the files of the selection still to come
  pdf_file,                   \* the number of the file being processed
  pdf,                        \* that document, while find_esrs_pages has it
  page_count,                 \* len(pdf.pages) of the document last opened
  esrs_pages,                 \* extract_esrs_tables: the selected pages
  page_pos,                   \* the position in esrs_pages of the page at hand
  tables_lattice,             \* the lattice tables of that page
  tables_stream,              \* the stream tables of that page
  tables,                     \* line 486: both, combined
  table_pos,                  \* the position in tables of the table at hand
  extracted_from_table,       \* line 502: the entries of the last table
  row_locals,                 \* the local variables of its row iterations
  all_extracted_data,         \* line 477
  read_pdf_calls,             \* the camelot.read_pdf calls made for this document
  failure_lines,              \* the "failed on page" lines printed for this page
  returned,                   \* what the last extract_esrs_tables call returned
  to_csv_calls,               \* the to_csv calls of the last extract_esrs_tables call
  csv_files,                  \* for each listed file: its output file exists
  simple_pages,               \* the variant: what its find_esrs_pages gave
  pinned                      \* the listed files that stay as they are during the run

vars == <<script, pc, dr_list_file, esrs_disclosure_texts, disclosure_to_code_mapping,
          load_raised, pdf_files_to_process, pdf_file, pdf, page_count, esrs_pages,
          page_pos, tables_lattice, tables_stream, tables, table_pos,
          extracted_from_table, row_locals, all_extracted_data, read_pdf_calls,
          failure_lines, returned, to_csv_calls, csv_files, simple_pages, pinned>>

\* the globals and the input of main()
run_vars == <<script, dr_list_file, esrs_disclosure_texts, disclosure_to_code_mapping,
              load_raised, pinned>>

\* the local variables of one pass of the page loop of extract_esrs_tables
page_vars == <<tables_lattice, tables_stream, tables, table_pos, extracted_from_table,
               row_locals, failure_lines>>

\* the local variables of one extract_esrs_tables call
call_vars == <<esrs_pages, page_pos, all_extracted_data, read_pdf_calls>>

NoDocument == [exists |-> FALSE, opens |-> FALSE, pages |-> <<>>]

\* the page loop is at its head: the variables of the last pass are dead
NoPage ==
  /\ tables_lattice' = <<>>
  /\ tables_stream' = <<>>
  /\ tables' = <<>>
  /\ table_pos' = 0
  /\ extracted_from_table' = <<>>
  /\ row_locals' = <<>>
  /\ failure_lines' = <<>>

\* no extract_esrs_tables call is running: its local variables do not exist
NoCall ==
  /\ esrs_pages' = <<>>
  /\ page_pos' = 0
  /\ all_extracted_data' = <<>>
  /\ read_pdf_calls' = <<>>
  /\ NoPage

\* nothing has run yet: the globals of lines 218-219 are empty
NothingRun ==
  /\ esrs_disclosure_texts = <<>>
  /\ disclosure_to_code_mapping = <<>>
  /\ load_raised = FALSE
  /\ pdf_files_to_process = <<>>
  /\ pdf_file = 0
  /\ pdf = NoDocument
  /\ page_count = 0
  /\ esrs_pages = <<>>
  /\ page_pos = 0
  /\ tables_lattice = <<>>
  /\ tables_stream = <<>>
  /\ tables = <<>>
  /\ table_pos = 0
  /\ extracted_from_table = <<>>
  /\ row_locals = <<>>
  /\ all_extracted_data = <<>>
  /\ read_pdf_calls = <<>>
  /\ failure_lines = <<>>
  /\ returned = "nothing yet"
  /\ to_csv_calls = 0
  /\ csv_files = [f \in FileNumbers |-> FALSE]
  /\ simple_pages = [pages |-> <<>>, raised |-> FALSE]

\* what listed file f can be when main() comes to it: a pinned file is the
\* document it is pinned to, another file anything
documents_at(f) == IF f \in DOMAIN pinned THEN {pinned[f].doc} ELSE Documents

\* what camelot.read_pdf can do on a page of listed file f: for a pinned file
\* what it does on that page of the document each time, else anything
read_pdf(f, page, flavor) ==
  IF f \in DOMAIN pinned THEN {pinned[f][flavor][page]}
  ELSE IF flavor = "lattice" THEN LatticeOutcomes
  ELSE StreamOutcomes

\* the state main() of either script starts in
Init ==
  /\ script \in {"extract.py", "variant"}
  /\ pc = IF script = "extract.py" THEN "load" ELSE "variant_next"
  /\ dr_list_file \in (IF script = "extract.py" THEN ReferenceFiles ELSE {MissingFile})
  /\ pinned = <<>>
  /\ NothingRun

\* main(), line 543: load_dr_list(dr_list_file)
LoadDrList ==
  /\ pc = "load"
  /\ LET loaded == load_dr_list(dr_list_file)
     IN  /\ esrs_disclosure_texts' = loaded.esrs_disclosure_texts
         /\ disclosure_to_code_mapping' = loaded.disclosure_to_code_mapping
         /\ load_raised' = loaded.raised
         /\ pc' = IF loaded.raised THEN "crashed" ELSE "prompt"
  /\ UNCHANGED <<script, dr_list_file, pdf_files_to_process, pdf_file, pdf, page_count,
                 returned, to_csv_calls, csv_files, simple_pages, pinned>>
  /\ UNCHANGED <<call_vars, page_vars>>

\* main(), lines 596-636: the user enters the numbers of listed files
Select ==
  /\ pc = "prompt"
  /\ \E selection \in Selections : pdf_files_to_process' = selection
  /\ pc' = "next"
  /\ UNCHANGED <<pdf_file, pdf, page_count, returned, to_csv_calls, csv_files,
                 simple_pages>>
  /\ UNCHANGED <<run_vars, call_vars, page_vars>>

\* main(), lines 598-600: the user enters q
Quit ==
  /\ pc = "prompt"
  /\ pc' = "exit"
  /\ UNCHANGED <<pdf_files_to_process, pdf_file, pdf, page_count, returned,
                 to_csv_calls, csv_files, simple_pages>>
  /\ UNCHANGED <<run_vars, call_vars, page_vars>>

\* files_after_skip with a break in place of the continue of line 640
files_after_break(files) == <<>>

\* lines 637-640: after the continue the loop has the files behind the skipped one
files_after_skip(files) == Tail(files)

\* main(), lines 637-640: a selected file that is no longer there is skipped
SkipMissingFile ==
  /\ pc = "next"
  /\ pdf_files_to_process # <<>>
  /\ \E doc \in documents_at(Head(pdf_files_to_process)) : ~doc.exists
  /\ pdf_file' = Head(pdf_files_to_process)
  /\ pdf_files_to_process' = files_after_skip(pdf_files_to_process)
  /\ pc' = "next"
  /\ UNCHANGED <<pdf, page_count, returned, to_csv_calls, csv_files, simple_pages>>
  /\ UNCHANGED <<run_vars, call_vars, page_vars>>

\* main(), lines 637-646, and line 314: the next selected file is there;
\* extract_esrs_tables starts and find_esrs_pages opens the document
NextFile ==
  /\ pc = "next"
  /\ pdf_files_to_process # <<>>
  /\ pdf_file' = Head(pdf_files_to_process)
  /\ pdf_files_to_process' = Tail(pdf_files_to_process)
  /\ \E doc \in documents_at(Head(pdf_files_to_process)) : doc.exists /\ pdf' = doc
  /\ page_count' = Len(pdf'.pages)
  /\ returned' = "running"
  /\ to_csv_calls' = 0
  /\ pc' = "find"
  /\ NoCall
  /\ UNCHANGED <<csv_files, simple_pages>>
  /\ UNCHANGED run_vars

\* FindEsrsPages keeping the disclosure texts in lower case in the global list
FindEsrsPagesLoweringTexts ==
  /\ pc = "find"
  /\ esrs_pages' = find_esrs_pages(pdf, esrs_disclosure_texts)
  /\ esrs_disclosure_texts' = [k \in DOMAIN esrs_disclosure_texts |->
                                 lower(esrs_disclosure_texts[k])]
  /\ pc' = "found"
  /\ UNCHANGED <<pdf_files_to_process, pdf_file, pdf, page_count, page_pos,
                 all_extracted_data, read_pdf_calls, returned, to_csv_calls, csv_files,
                 simple_pages>>
  /\ UNCHANGED <<script, dr_list_file, disclosure_to_code_mapping, load_raised, pinned>>
  /\ UNCHANGED page_vars

\* extract_esrs_tables, line 470: find_esrs_pages(pdf_path) scans the document
FindEsrsPages ==
  /\ pc = "find"
  /\ esrs_pages' = find_esrs_pages(pdf, esrs_disclosure_texts)
  /\ pc' = "found"
  /\ UNCHANGED <<pdf_files_to_process, pdf_file, pdf, page_count, page_pos,
                 all_extracted_data, read_pdf_calls, returned, to_csv_calls, csv_files,
                 simple_pages>>
  /\ UNCHANGED <<run_vars, page_vars>>

\* extract_esrs_tables, lines 471-479: None without pages, else the page loop starts
CheckPages ==
  /\ pc = "found"
  /\ pdf' = NoDocument
  /\ IF esrs_pages = <<>>
     THEN /\ returned' = "None"
          /\ pc' = "returned"
          /\ page_pos' = 0
     ELSE /\ returned' = returned
          /\ pc' = "lattice"
          /\ page_pos' = 1
  /\ UNCHANGED <<pdf_files_to_process, pdf_file, page_count, esrs_pages,
                 all_extracted_data, read_pdf_calls, to_csv_calls, csv_files,
                 simple_pages>>
  /\ UNCHANGED <<run_vars, page_vars>>

\* extract_esrs_tables, line 482: the lattice flavor on the page at hand
ExtractLattice ==
  /\ pc = "lattice"
  /\ \E outcome \in read_pdf(pdf_file, esrs_pages[page_pos], "lattice") :
       LET got == extract_tables_on_page(outcome)
       IN  /\ tables_lattice' = got.tables
           /\ failure_lines' = Append(failure_lines, got.printed)
  /\ read_pdf_calls' = Append(read_pdf_calls, <<esrs_pages[page_pos], "lattice">>)
  /\ pc' = "stream"
  /\ UNCHANGED <<pdf_files_to_process, pdf_file, pdf, page_count, esrs_pages, page_pos,
                 tables_stream, tables, table_pos, extracted_from_table, row_locals,
                 all_extracted_data, returned, to_csv_calls, csv_files, simple_pages>>
  /\ UNCHANGED run_vars

\* extract_esrs_tables, lines 483-497: the stream flavor, then both lists combined;
\* a page without tables is left by the continue of line 495
ExtractStream ==
  /\ pc = "stream"
  /\ \E outcome \in read_pdf(pdf_file, esrs_pages[page_pos], "stream") :
       LET got == extract_tables_on_page(outcome)
       IN  /\ tables_stream' = got.tables
           /\ failure_lines' = Append(failure_lines, got.printed)
  /\ read_pdf_calls' = Append(read_pdf_calls, <<esrs_pages[page_pos], "stream">>)
  /\ tables' = combine_tables(tables_lattice, tables_stream')
  /\ table_pos' = IF nonempty(tables') THEN 1 ELSE 0
  /\ pc' = IF nonempty(tables') THEN "table" ELSE "page_done"
  /\ UNCHANGED <<pdf_files_to_process, pdf_file, pdf, page_count, esrs_pages, page_pos,
                 tables_lattice, extracted_from_table, row_locals, all_extracted_data,
                 returned, to_csv_calls, csv_files, simple_pages>>
  /\ UNCHANGED run_vars

\* extend putting the new entries in front
extend_in_front(list, items) == items \o list

\* line 505: list.extend(items)
extend(list, items) == list \o items

\* extract_esrs_tables, lines 498-507: one table is processed, its entries appended
ProcessTable ==
  /\ pc = "table"
  /\ row_locals' = table_locals(tables[table_pos], esrs_disclosure_texts,
                                disclosure_to_code_mapping)
  /\ extracted_from_table' = relevant_entries(row_locals', esrs_pages[page_pos])
  /\ all_extracted_data' = IF nonempty(extracted_from_table')
                           THEN extend(all_extracted_data, extracted_from_table')
                           ELSE all_extracted_data
  /\ table_pos' = IF table_pos < Len(tables) THEN table_pos + 1 ELSE table_pos
  /\ pc' = IF table_pos < Len(tables) THEN "table" ELSE "page_done"
  /\ UNCHANGED <<pdf_files_to_process, pdf_file, pdf, page_count, esrs_pages, page_pos,
                 tables_lattice, tables_stream, tables, read_pdf_calls, failure_lines,
                 returned, to_csv_calls, csv_files, simple_pages>>
  /\ UNCHANGED run_vars

\* extract_esrs_tables, line 479: the page loop takes the next page or ends
NextPage ==
  /\ pc = "page_done"
  /\ page_pos' = IF page_pos < Len(esrs_pages) THEN page_pos + 1 ELSE page_pos
  /\ pc' = IF page_pos < Len(esrs_pages) THEN "lattice" ELSE "finish"
  /\ NoPage
  /\ UNCHANGED <<pdf_files_to_process, pdf_file, pdf, page_count, esrs_pages,
                 all_extracted_data, read_pdf_calls, returned, to_csv_calls, csv_files,
                 simple_pages>>
  /\ UNCHANGED run_vars

\* lines 515-524: result_df.to_csv(output_csv_path) makes or replaces the file
to_csv(files, file) == [files EXCEPT ![file] = TRUE]

\* writes_csv without the test of lines 510-512
writes_csv_always(data) == TRUE

\* lines 510-512: the call writes a file only if entries were extracted
writes_csv(data) == data # <<>>

\* extract_esrs_tables, lines 510-526: None without entries, else the CSV is written
Finish ==
  /\ pc = "finish"
  /\ IF writes_csv(all_extracted_data)
     THEN /\ returned' = "result_df"
          /\ to_csv_calls' = to_csv_calls + 1
          /\ csv_files' = to_csv(csv_files, pdf_file)
     ELSE /\ returned' = "None"
          /\ to_csv_calls' = to_csv_calls
          /\ csv_files' = csv_files
  /\ pc' = "returned"
  /\ UNCHANGED <<pdf_files_to_process, pdf_file, pdf, page_count, simple_pages>>
  /\ UNCHANGED <<run_vars, call_vars, page_vars>>

\* main(), lines 646-651: the call has returned and main() has looked at its
\* result; the local variables of the call are gone
ReportResult ==
  /\ pc = "returned"
  /\ pc' = "next"
  /\ returned' = "nothing yet"
  /\ to_csv_calls' = 0
  /\ NoCall
  /\ UNCHANGED <<pdf_files_to_process, pdf_file, pdf, page_count, csv_files,
                 simple_pages>>
  /\ UNCHANGED run_vars

\* main(), lines 653-656: the selection is done; the user is asked for more
ProcessMore ==
  /\ pc = "next"
  /\ pdf_files_to_process = <<>>
  /\ \E answer \in {"yes", "no"} : pc' = IF answer = "yes" THEN "prompt" ELSE "exit"
  /\ UNCHANGED <<pdf_files_to_process, pdf_file, pdf, page_count, returned,
                 to_csv_calls, csv_files, simple_pages>>
  /\ UNCHANGED <<run_vars, call_vars, page_vars>>

\* the variant, main(), lines 76-78, and line 12: the next file of the directory
\* is taken and find_esrs_pages opens it
VariantNextFile ==
  /\ pc = "variant_next"
  /\ \E doc \in Documents : doc.exists /\ pdf' = doc
  /\ page_count' = Len(pdf'.pages)
  /\ pdf_file' = 1
  /\ pc' = "variant_find"
  /\ UNCHANGED <<pdf_files_to_process, returned, to_csv_calls, csv_files, simple_pages>>
  /\ UNCHANGED <<run_vars, call_vars, page_vars>>

\* the variant, extract_esrs_tables, line 31: find_esrs_pages returns or raises
VariantFindEsrsPages ==
  /\ pc = "variant_find"
  /\ simple_pages' = simple_find_esrs_pages(pdf)
  /\ pc' = IF simple_pages'.raised THEN "crashed" ELSE "variant_pages"
  /\ UNCHANGED <<pdf_files_to_process, pdf_file, pdf, page_count, returned,
                 to_csv_calls, csv_files>>
  /\ UNCHANGED <<run_vars, call_vars, page_vars>>

Next ==
  \/ LoadDrList
  \/ Select
  \/ Quit
  \/ SkipMissingFile
  \/ NextFile
  \/ FindEsrsPages
  \/ CheckPages
  \/ ExtractLattice
  \/ ExtractStream
  \/ ProcessTable
  \/ NextPage
  \/ Finish
  \/ ReportResult
  \/ ProcessMore
  \/ VariantNextFile
  \/ VariantFindEsrsPages

Spec == Init /\ [][Next]_vars

(***************************************************************************)
(* load_dr_list on the generated reference lists.                          *)
(***************************************************************************)
\* main() of extract.py starts with one of the files of LoadFiles
LoadInit ==
  /\ script = "extract.py"
  /\ pc = "load"
  /\ dr_list_file \in LoadFiles
  /\ pinned = <<>>
  /\ NothingRun

LoadNext ==
  \/ LoadDrList
  \/ Quit

LoadSpec == LoadInit /\ [][LoadNext]_vars

(***************************************************************************)
(* process_table_for_esrs on the generated rows.                           *)
(***************************************************************************)
\* extract_esrs_tables is at line 498 on the only selected page of a document: the
\* lattice flavor has found a table of one generated row, the stream flavor none
RowInit ==
  /\ script = "extract.py"
  /\ pc = "table"
  /\ dr_list_file \in RowFiles
  /\ esrs_disclosure_texts = load_dr_list(dr_list_file).esrs_disclosure_texts
  /\ disclosure_to_code_mapping = load_dr_list(dr_list_file).disclosure_to_code_mapping
  /\ load_raised = FALSE
  /\ pdf_files_to_process = <<>>
  /\ pdf_file = 1
  /\ pdf = NoDocument
  /\ page_count = 1
  /\ esrs_pages = <<1>>
  /\ page_pos = 1
  /\ \E row \in GeneratedRows : tables_lattice = << <<row>> >>
  /\ tables_stream = <<>>
  /\ tables = combine_tables(tables_lattice, tables_stream)
  /\ table_pos = 1
  /\ extracted_from_table = <<>>
  /\ row_locals = <<>>
  /\ all_extracted_data = <<>>
  /\ read_pdf_calls = << <<1, "lattice">>, <<1, "stream">> >>
  /\ failure_lines = <<0, 0>>
  /\ returned = "running"
  /\ to_csv_calls = 0
  /\ csv_files = [f \in FileNumbers |-> FALSE]
  /\ simple_pages = [pages |-> <<>>, raised |-> FALSE]
  /\ pinned = <<>>

RowNext ==
  \/ ProcessTable
  \/ NextPage
  \/ Finish
  \/ ReportResult

RowSpec == RowInit /\ [][RowNext]_vars

(***************************************************************************)
(* extract_esrs_tables twice on one document.                              *)
(***************************************************************************)
\* the page texts of the documents that are processed twice
PinnedPageResults ==
  { <<"A","n","n","u","a","l"," ","r","e","p","o","r","t">>,
    <<"E","s","r","s"," ","i","n","d","e","x">> }

\* a document that is there, and what camelot.read_pdf does on each of its pages
PinnedInputs ==
  {[doc |-> [exists |-> TRUE, opens |-> FALSE, pages |-> <<>>],
    lattice |-> <<>>, stream |-> <<>>]}
  \cup UNION {{[doc |-> [exists |-> TRUE, opens |-> TRUE, pages |-> ps],
                lattice |-> lattice, stream |-> stream] :
                  ps \in [1..n -> PinnedPageResults],
                  lattice \in [1..n -> {[error |-> <<"P","D","F"," ","s","y","n","t","a","x"," ","e","r","r","o","r">>, tables |-> <<>>],
                                        [error |-> None, tables |-> <<GovTable>>]}],
                  stream \in [1..n -> {[error |-> <<"N","o"," ","t","a","b","l","e","s"," ","f","o","u","n","d"," ","o","n"," ","p","a","g","e","-","1">>, tables |-> <<>>],
                                       [error |-> None, tables |-> <<GovTable>>],
                                       [error |-> None, tables |-> <<ReferenceTable, NumberTable>>]}]} :
               n \in 1..MaxPages}

\* main() of extract.py is at line 637 with the reference list loaded: the user
\* has entered "1,1", and file 1 stays as it is during the run
TwiceInit ==
  /\ script = "extract.py"
  /\ pc = "next"
  /\ dr_list_file \in {MissingFile, GovernanceFile}
  /\ esrs_disclosure_texts = load_dr_list(dr_list_file).esrs_disclosure_texts
  /\ disclosure_to_code_mapping = load_dr_list(dr_list_file).disclosure_to_code_mapping
  /\ load_raised = FALSE
  /\ pdf_files_to_process = <<1, 1>>
  /\ pdf_file = 0
  /\ pdf = NoDocument
  /\ page_count = 0
  /\ esrs_pages = <<>>
  /\ page_pos = 0
  /\ tables_lattice = <<>>
  /\ tables_stream = <<>>
  /\ tables = <<>>
  /\ table_pos = 0
  /\ extracted_from_table = <<>>
  /\ row_locals = <<>>
  /\ all_extracted_data = <<>>
  /\ read_pdf_calls = <<>>
  /\ failure_lines = <<>>
  /\ returned = "nothing yet"
  /\ to_csv_calls = 0
  /\ csv_files = [f \in FileNumbers |-> FALSE]
  /\ simple_pages = [pages |-> <<>>, raised |-> FALSE]
  /\ \E input \in PinnedInputs : pinned = <<input>>

TwiceNext ==
  \/ NextFile
  \/ FindEsrsPages
  \/ CheckPages
  \/ ExtractLattice
  \/ ExtractStream
  \/ ProcessTable
  \/ NextPage
  \/ Finish
  \/ ReportResult

TwiceSpec == TwiceInit /\ [][TwiceNext]_vars

(***************************************************************************)
(* The properties.                                                         *)
(***************************************************************************)
\* C1: the list find_esrs_pages returns for a document, in either script, holds
\* only page indices from 1 to the page count of the document and is strictly
\* ascending, hence without duplicates, whatever hits each page has
C1_PagesInRangeAscending ==
  /\ \A k \in DOMAIN esrs_pages : esrs_pages[k] \in 1..page_count
  /\ \A j, k \in DOMAIN esrs_pages : j < k => esrs_pages[j] < esrs_pages[k]
  /\ \A k \in DOMAIN simple_pages.pages : simple_pages.pages[k] \in 1..page_count
  /\ \A j, k \in DOMAIN simple_pages.pages :
       j < k => simple_pages.pages[j] < simple_pages.pages[k]

\* find_esrs_pages has returned two pages of a document of which a page has both
\* the keyword and a disclosure text of the loaded list
C1_PageWithBothHits ==
  /\ pc = "found"
  /\ Len(esrs_pages) = 2
  /\ nonempty(esrs_disclosure_texts)
  /\ \E i \in DOMAIN pdf.pages :
       /\ mentions_esrs(pdf.pages[i])
       /\ mentions_disclosure(pdf.pages[i], esrs_disclosure_texts)

\* C2: process_table_for_esrs gives an entry for a row exactly when a code is found
\* in the row text and a disclosure text matched or the section, page or paragraph
\* references are not empty: the entries of a table are those of such rows, in row
\* order; no row without a code gives one, and other references alone keep no row
C2_RowKeptIffCodeAndReference ==
  LET kept(v) == /\ re_search(ESRS_CODE_RE_at(v.row_text)) # <<>>
                 /\ \/ v.matched_disclosure_text # None
                    \/ v.section_refs # <<>>
                    \/ v.page_refs # <<>>
                    \/ v.paragraph_refs # <<>>
      kept_rows == SelectSeq(row_locals, kept)
  IN  row_locals # <<>> =>
        /\ Len(extracted_from_table) = Len(kept_rows)
        /\ \A k \in DOMAIN kept_rows :
             /\ extracted_from_table[k].Source_Row_Text = kept_rows[k].row_text
             /\ extracted_from_table[k].ESRS_Code = kept_rows[k].found_esrs_code

\* a row with a code whose only references are standalone numbers has been
\* processed and has given no entry
C2_OtherRefsAlone ==
  /\ Len(row_locals) = 1
  /\ row_locals[1].found_esrs_code # None
  /\ row_locals[1].other_refs # <<>>
  /\ row_locals[1].section_refs = <<>>
  /\ row_locals[1].page_refs = <<>>
  /\ row_locals[1].paragraph_refs = <<>>
  /\ extracted_from_table = <<>>

\* C3, as the code has it: without a reference list, the table with the rows
\* ["ESRS 2 GOV-1", "Section 3.1.1.3"] and ["Some other text", ""] on the only
\* selected page gives exactly one entry, with the code "GOV-1", the section
\* reference "Section 3.1.1.3", no page and no paragraph reference, and the other
\* reference "2", the standalone number of "ESRS 2"
C3_ScenarioOtherRefsTwo ==
  (/\ pc = "page_done"
   /\ esrs_disclosure_texts = <<>>
   /\ Len(esrs_pages) = 1
   /\ tables = <<GovTable>>)
  => /\ Len(all_extracted_data) = 1
     /\ all_extracted_data[1].ESRS_Code = <<"G","O","V","-","1">>
     /\ all_extracted_data[1].Section_Reference = <<"S","e","c","t","i","o","n"," ","3",".","1",".","1",".","3">>
     /\ all_extracted_data[1].Page_Reference = <<>>
     /\ all_extracted_data[1].Paragraph_Reference = <<>>
     /\ all_extracted_data[1].Other_Reference = <<"2">>
     /\ row_locals[1].section_refs = << <<"S","e","c","t","i","o","n"," ","3",".","1",".","1",".","3">> >>
     /\ row_locals[1].page_refs = <<>>
     /\ row_locals[1].paragraph_refs = <<>>
     /\ row_locals[1].other_refs = << <<"2">> >>
     /\ ~row_locals[2].is_relevant

\* the table of the scenario has been processed without a reference list
C3_ScenarioProcessed ==
  /\ pc = "page_done"
  /\ esrs_disclosure_texts = <<>>
  /\ Len(esrs_pages) = 1
  /\ tables = <<GovTable>>
  /\ Len(all_extracted_data) = 1

\* C3, as stated: the same scenario, with an empty list of other references
C3_ScenarioOtherRefsEmpty ==
  (/\ pc = "page_done"
   /\ esrs_disclosure_texts = <<>>
   /\ Len(esrs_pages) = 1
   /\ tables = <<GovTable>>)
  => /\ Len(all_extracted_data) = 1
     /\ all_extracted_data[1].ESRS_Code = <<"G","O","V","-","1">>
     /\ all_extracted_data[1].Section_Reference = <<"S","e","c","t","i","o","n"," ","3",".","1",".","1",".","3">>
     /\ all_extracted_data[1].Page_Reference = <<>>
     /\ all_extracted_data[1].Paragraph_Reference = <<>>
     /\ all_extracted_data[1].Other_Reference = <<>>
     /\ row_locals[1].section_refs = << <<"S","e","c","t","i","o","n"," ","3",".","1",".","1",".","3">> >>
     /\ row_locals[1].page_refs = <<>>
     /\ row_locals[1].paragraph_refs = <<>>
     /\ row_locals[1].other_refs = <<>>
     /\ ~row_locals[2].is_relevant

\* C4: after load_dr_list has returned for the list with the columns "Disclosure
\* requirement and related datapoint" and "ESRS and paragraph number" and the one
\* row ("Climate policy", "E1-1 §14"), the mapping is {"Climate policy": "E1-1"}
C4_ClimatePolicyMapped ==
  (pc # "load" /\ dr_list_file = ClimateFile)
  => disclosure_to_code_mapping = << << <<"C","l","i","m","a","t","e"," ","p","o","l","i","c","y">>, <<"E","1","-","1">> >> >>

\* that list has been loaded: its text is kept, and nothing is mapped
C4_ClimatePolicyUnmapped ==
  /\ pc = "prompt"
  /\ dr_list_file = ClimateFile
  /\ esrs_disclosure_texts = << <<"C","l","i","m","a","t","e"," ","p","o","l","i","c","y">> >>
  /\ disclosure_to_code_mapping = <<>>

\* C5: for every processed row, hence in every entry, no other reference is a
\* number token that lies inside a section, paragraph or "page N" match of the
\* searched text; the searched text "see Section 3.1.1 and page 42" gives the
\* section reference "Section 3.1.1", the page reference "42" and no other one
C5_OtherRefsOutsideCapturedRefs ==
  \A r \in DOMAIN row_locals :
    LET v == row_locals[r]
        text == v.reference_search_text
        numbers == re_spans(STANDALONE_NUMBER_RE_at(text))
        captured == re_spans(SECTION_RE_at(text)) \o re_spans(PARAGRAPH_RE_at(text))
                    \o re_spans(PAGE_RE_at(text))
        inside(n, c) == c[1] <= n[1] /\ n[2] <= c[2]
    IN  /\ \A n \in DOMAIN numbers :
             (\E c \in DOMAIN captured : inside(numbers[n], captured[c]))
             => ~in_list(group0(text, numbers[n]), v.other_refs)
        /\ strip(text) = <<"s","e","e"," ","S","e","c","t","i","o","n"," ","3",".","1",".","1"," ","a","n","d"," ","p","a","g","e"," ","4","2">>
           => /\ v.section_refs = << <<"S","e","c","t","i","o","n"," ","3",".","1",".","1">> >>
              /\ v.page_refs = << <<"4","2">> >>
              /\ v.other_refs = <<>>

\* a row has given an entry and the text searched after its matched disclosure
\* text is "see Section 3.1.1 and page 42"
C5_ExampleSearched ==
  \E r \in DOMAIN row_locals :
    /\ row_locals[r].is_relevant
    /\ row_locals[r].matched_disclosure_text # None
    /\ strip(row_locals[r].reference_search_text) = <<"s","e","e"," ","S","e","c","t","i","o","n"," ","3",".","1",".","1"," ","a","n","d"," ","p","a","g","e"," ","4","2">>
    /\ extracted_from_table # <<>>

\* C6: the matched disclosure text of a row, when there is one, is a key of the
\* mapping and its mapped code is the first code match of the row text; a text
\* mapped to another code is not taken, be it longer or earlier in the row
C6_MatchedTextHasRowCode ==
  \A r \in DOMAIN row_locals :
    LET v == row_locals[r]
        code == re_search(ESRS_CODE_RE_at(v.row_text))
    IN  v.matched_disclosure_text # None
        => /\ in_list(v.matched_disclosure_text, dict_keys(disclosure_to_code_mapping))
           /\ code # <<>>
           /\ dict_get(disclosure_to_code_mapping, v.matched_disclosure_text)
                = group0(v.row_text, code)

\* a row has matched "Governance" although the longer "Governance role", mapped
\* to another code, occurs in it, and no later than the matched text
C6_LongerTextOfOtherCode ==
  \E r \in DOMAIN row_locals :
    LET v == row_locals[r]
    IN  /\ v.matched_disclosure_text = <<"G","o","v","e","r","n","a","n","c","e">>
        /\ find(lower(v.row_text), lower(<<"G","o","v","e","r","n","a","n","c","e"," ","r","o","l","e">>)) # -1
        /\ find(lower(v.row_text), lower(<<"G","o","v","e","r","n","a","n","c","e"," ","r","o","l","e">>)) <= v.best_match_index
        /\ dict_get(disclosure_to_code_mapping, <<"G","o","v","e","r","n","a","n","c","e"," ","r","o","l","e">>) # v.found_esrs_code

\* C7: load_dr_list does not raise to main(); when the file is not there, when
\* pd.read_csv fails on it or when no column is identified as the disclosure
\* column or as the code column, it leaves both globals empty and main() goes on
C7_LoadFailureLeavesEmpty ==
  LET file == dr_list_file
      identified(potential) ==
        \E c \in DOMAIN file.columns : \E k \in DOMAIN potential :
          contains(lower(file.columns[c]), lower(potential[k]))
      fails == \/ ~file.exists
               \/ ~file.parses
               \/ ~identified(potential_disclosure_cols)
               \/ ~identified(potential_esrs_code_cols)
  IN  pc # "load"
      => /\ ~load_raised
         /\ pc # "crashed"
         /\ fails => (esrs_disclosure_texts = <<>> /\ disclosure_to_code_mapping = <<>>)

\* a list with rows and a code column but no disclosure column has been loaded
C7_NoDisclosureColumnLoaded ==
  /\ pc = "prompt"
  /\ dr_list_file.exists
  /\ dr_list_file.parses
  /\ dr_list_file.rows # <<>>
  /\ first_col(dr_list_file.columns, potential_esrs_code_cols) # 0
  /\ first_col(dr_list_file.columns, potential_disclosure_cols) = 0
  /\ esrs_disclosure_texts = <<>>

\* C8: in either script a page whose extract_text() raises counts as a page
\* without text: find_esrs_pages returns, and the pages it returns are exactly
\* the pages whose text has the keyword or a disclosure text, those before the
\* failing page and those after it too
C8_FailingPageCountsAsEmpty ==
  LET hit(i) == /\ pdf.pages[i] # None
                /\ pdf.pages[i] # Raises
                /\ \/ mentions_esrs(pdf.pages[i])
                   \/ mentions_disclosure(pdf.pages[i], esrs_disclosure_texts)
  IN  /\ (pc = "found" /\ pdf.opens)
         => \A i \in DOMAIN pdf.pages : hit(i) <=> in_list(i, esrs_pages)
      /\ (pc \in {"variant_pages", "crashed"} /\ pdf.opens)
         => /\ ~simple_pages.raised
            /\ \A i \in DOMAIN pdf.pages : hit(i) <=> in_list(i, simple_pages.pages)

\* find_esrs_pages of extract.py has returned no page for a document whose first
\* page has the keyword and whose second page fails
C8_FailureEmptiesResult ==
  /\ pc = "found"
  /\ pdf.pages = << <<"E","s","r","s"," ","i","n","d","e","x">>, Raises >>
  /\ esrs_pages = <<>>

\* C9: on every selected page camelot.read_pdf is called with the lattice flavor
\* and then with the stream flavor, whatever the calls before have done; a call
\* prints at most one failure line, and one that has printed it gives no table;
\* the tables of the page are the lattice tables followed by the stream tables,
\* the tables both flavors have found twice
C9_BothFlavorsOnEveryPage ==
  LET calls(n) == [k \in 1..(2 * n) |->
                     <<esrs_pages[(k + 1) \div 2],
                       IF k % 2 = 1 THEN "lattice" ELSE "stream">>]
  IN  /\ pc = "lattice" => read_pdf_calls = calls(page_pos - 1)
      /\ pc = "stream"
         => read_pdf_calls = Append(calls(page_pos - 1), <<esrs_pages[page_pos], "lattice">>)
      /\ pc \in {"table", "page_done"}
         => /\ read_pdf_calls = calls(page_pos)
            /\ tables = tables_lattice \o tables_stream
            /\ Len(failure_lines) = 2
            /\ failure_lines[1] = 1 => tables_lattice = <<>>
            /\ failure_lines[2] = 1 => tables_stream = <<>>
      /\ pc \in {"finish", "returned"} => read_pdf_calls = calls(Len(esrs_pages))
      /\ \A k \in DOMAIN failure_lines : failure_lines[k] \in {0, 1}

\* on the second selected page the lattice call has failed with a printed line
\* and the stream call has found a table
C9_LatticeFailedStreamFound ==
  /\ pc = "page_done"
  /\ page_pos = 2
  /\ failure_lines = <<1, 0>>
  /\ tables = <<GovTable>>
  /\ Len(read_pdf_calls) = 4

\* C10: extract_esrs_tables returns None exactly when it has collected no entry,
\* for want of selected pages, of tables or of relevant rows; it then calls to_csv
\* on no file, and a file is written only by a call that has collected entries
C10_NoEntriesNoFile ==
  [][/\ (pc' = "returned" /\ pc # "returned")
        => /\ (all_extracted_data' = <<>>) <=> (returned' = "None")
           /\ returned' = "None"
              => (csv_files' = csv_files /\ to_csv_calls' = to_csv_calls /\ to_csv_calls = 0)
     /\ (csv_files' # csv_files \/ to_csv_calls' > to_csv_calls)
        => /\ pc' = "returned"
           /\ pc = "finish"
           /\ all_extracted_data' # <<>>
           /\ returned' = "result_df"]_vars

\* a call that has selected pages and read them has returned None, and the
\* document has no output file
C10_PagesButNoEntries ==
  /\ pc = "returned"
  /\ returned = "None"
  /\ esrs_pages # <<>>
  /\ read_pdf_calls # <<>>
  /\ to_csv_calls = 0
  /\ ~csv_files[pdf_file]

\* the document find_esrs_pages has cannot be opened or has a page that cannot be read
Unreadable == ~pdf.opens \/ in_list(Raises, pdf.pages)

\* C11: in a run of extract.py a selected document that is not there, that cannot
\* be opened or that has a page that cannot be read is skipped and nothing more.
\* The run never crashes and never reaches a prompt or its end with selected files
\* left; the loop of line 637 can always take the first of the files that remain
\* and does take that one, whether it is there or not, leaving the others in the
\* order of the selection; find_esrs_pages returns no page for an unreadable
\* document, extract_esrs_tables then returns to main(), which goes back to the
\* head of the loop, and none of these steps is ever blocked; no step between two
\* passes of the loop touches the files that remain
C11_FatalErrorSkipsOnlyThatDocument ==
  /\ [](script = "extract.py"
          => /\ pc # "crashed"
             /\ pc \in {"prompt", "exit"} => pdf_files_to_process = <<>>
             /\ (pc = "next" /\ pdf_files_to_process # <<>>)
                => ENABLED (SkipMissingFile \/ NextFile)
             /\ (pc = "find" /\ Unreadable) => ENABLED FindEsrsPages
             /\ pc = "found" => ENABLED CheckPages
             /\ pc = "returned" => ENABLED ReportResult)
  /\ [][script = "extract.py"
         => /\ (pc = "next" /\ pdf_files_to_process # <<>>)
               => /\ pdf_file' = Head(pdf_files_to_process)
                  /\ pdf_files_to_process' = Tail(pdf_files_to_process)
                  /\ pc' \in {"next", "find"}
            /\ (pc = "find" /\ Unreadable)
               => /\ pc' = "found"
                  /\ esrs_pages' = <<>>
            /\ (pc = "found" /\ esrs_pages = <<>>) => pc' = "returned"
            /\ pc = "returned" => pc' = "next"
            /\ pc \notin {"next", "prompt"}
               => pdf_files_to_process' = pdf_files_to_process]_vars

\* find_esrs_pages has returned no page for a document that cannot be opened,
\* and a selected file remains behind it
C11_UnreadableWithFilesBehind ==
  /\ pc = "found"
  /\ pdf.exists
  /\ ~pdf.opens
  /\ esrs_pages = <<>>
  /\ pdf_files_to_process # <<>>

\* the rows one call has to give for a document: for each selected page, in the
\* order find_esrs_pages gives, the entries of its lattice tables and then of its
\* stream tables, each table in row order
expected_rows(input, texts, mapping) ==
  LET pages == find_esrs_pages(input.doc, texts)
      of_page(p) ==
        LET found == extract_tables_on_page(input.lattice[p]).tables
                     \o extract_tables_on_page(input.stream[p]).tables
            upto[k \in 0..Len(found)] ==
              IF k = 0 THEN <<>>
              ELSE upto[k - 1] \o process_table_for_esrs(found[k], p, texts, mapping)
        IN  upto[Len(found)]
      through[n \in 0..Len(pages)] ==
        IF n = 0 THEN <<>> ELSE through[n - 1] \o of_page(pages[n])
  IN  through[Len(pages)]

\* C12: with the same reference list loaded, each of two calls of
\* extract_esrs_tables on a document that has not changed collects the rows that
\* document gives, the lattice tables of a page before its stream tables: both
\* calls end with the same rows in the same order and return alike, the second
\* starts with nothing left of the first, and both write the output file or
\* neither does
C12_SecondRunGivesTheSameRows ==
  LET expected == expected_rows(pinned[1], esrs_disclosure_texts,
                                disclosure_to_code_mapping)
  IN  pinned # <<>>
      => /\ pc = "find" => (all_extracted_data = <<>> /\ read_pdf_calls = <<>>
                             /\ esrs_pages = <<>> /\ tables = <<>>)
         /\ pc = "returned"
            => /\ all_extracted_data = expected
               /\ returned = (IF expected = <<>> THEN "None" ELSE "result_df")
               /\ csv_files[1] = (expected # <<>>)
         /\ (pc = "table" /\ tables_lattice # <<>> /\ tables_stream # <<>>)
            => /\ SubSeq(tables, 1, Len(tables_lattice)) = tables_lattice
               /\ SubSeq(tables, Len(tables_lattice) + 1, Len(tables)) = tables_stream

\* the second call on the document has returned rows of two pages, of tables of
\* both flavors
C12_SecondRunReturned ==
  /\ pinned # <<>>
  /\ pc = "returned"
  /\ pdf_files_to_process = <<>>
  /\ Len(esrs_pages) = 2
  /\ Len(all_extracted_data) > 2
  /\ pinned[1].lattice[1].tables # <<>>
  /\ pinned[1].stream[1].tables = <<ReferenceTable, NumberTable>>
  /\ \E j, k \in DOMAIN all_extracted_data :
       all_extracted_data[j].Source_Page = 1 /\ all_extracted_data[k].Source_Page = 2

\* C13: for every processed row with a code, when the list is loaded: the text
\* the loop of line 373 ends with is None if no key of the mapping has the code
\* of the row and occurs in the row text, both in lower case; else it is such a
\* key, none of them occurs at a lower offset, none of those that occur first at
\* the same offset is longer, and none of those of the same offset and length
\* comes before it in the mapping; the matched text of the row is that text, or
\* none when that text is empty
C13_EarliestThenLongestThenFirst ==
  \A r \in DOMAIN row_locals :
    LET v == row_locals[r]
        keys == dict_keys(disclosure_to_code_mapping)
        offset(k) == find(lower(v.row_text), lower(keys[k]))
        candidates == {k \in DOMAIN keys :
                         /\ dict_get(disclosure_to_code_mapping, keys[k]) = v.found_esrs_code
                         /\ offset(k) # -1}
    IN  (esrs_disclosure_texts # <<>> /\ v.found_esrs_code # None)
        => /\ candidates = {} => (v.best_match_text = None /\ v.matched_disclosure_text = None)
           /\ candidates # {}
              => \E s \in candidates :
                   /\ v.best_match_text = keys[s]
                   /\ v.best_match_index = offset(s)
                   /\ v.matched_disclosure_text = (IF keys[s] = <<>> THEN None ELSE keys[s])
                   /\ \A k \in candidates :
                        /\ offset(s) <= offset(k)
                        /\ offset(k) = offset(s) => Len(keys[k]) <= Len(keys[s])
                        /\ (offset(k) = offset(s) /\ Len(keys[k]) = Len(keys[s])) => s <= k

\* a row has matched the short text "see" at offset 0 although the longer texts
\* of its code "Governance role", "Governance" and "GOVERNANCE" occur in it too,
\* the last two at the same offset
C13_ShortEarlyBeatsLongLate ==
  \E r \in DOMAIN row_locals :
    LET v == row_locals[r]
    IN  /\ dr_list_file = TieBreakFile
        /\ v.matched_disclosure_text = <<"s","e","e">>
        /\ v.best_match_index = 0
        /\ find(lower(v.row_text), lower(<<"G","o","v","e","r","n","a","n","c","e"," ","r","o","l","e">>)) > 0
        /\ Len(dict_keys(disclosure_to_code_mapping)) = 4

\* C14: for every processed row: without a matched disclosure text the text
\* searched for references is the whole row text; with one, the matched text
\* occurs in the row text, first at some offset when case is ignored, and the
\* searched text is the row text from the end of that occurrence on, so that the
\* two together are no longer than the row text; every section, paragraph, page
\* and other reference of the row is then found in that part, and a reference
\* pattern match of the row text that ends at or before the end of the matched
\* text is reported only if its text is found again in that part
C14_ReferencesAfterMatchedText ==
  \A r \in DOMAIN row_locals :
    LET v == row_locals[r]
        matched == v.matched_disclosure_text
        start == find(lower(v.row_text), lower(matched))
        end == start + Len(matched)
        after == SubSeq(v.row_text, end + 1, Len(v.row_text))
        refs == v.section_refs \o v.paragraph_refs \o v.page_refs \o v.other_refs
        located_before(spans) ==
          {group0(v.row_text, spans[k]) : k \in {j \in DOMAIN spans : spans[j][2] <= end}}
        before == located_before(re_spans(SECTION_RE_at(v.row_text)))
                  \cup located_before(re_spans(PARAGRAPH_RE_at(v.row_text)))
                  \cup located_before(re_spans(STANDALONE_NUMBER_RE_at(v.row_text)))
    IN  /\ matched = None => v.reference_search_text = v.row_text
        /\ matched # None
           => /\ start # -1
              /\ lower(SubSeq(v.row_text, start + 1, end)) = lower(matched)
              /\ v.reference_search_text = after
              /\ Len(v.reference_search_text) + end = Len(v.row_text)
              /\ \A k \in DOMAIN refs : contains(after, refs[k])
              /\ \A ref \in before : in_list(ref, refs) => contains(after, ref)

\* a row has matched "Governance role" behind the cells "paragraph 14" and
\* "ESRS 2 GOV-1": nothing is left to search, no reference is reported, and the
\* row gives an entry
C14_ReferenceBeforeMatchedText ==
  \E r \in DOMAIN row_locals :
    LET v == row_locals[r]
    IN  /\ v.matched_disclosure_text = <<"G","o","v","e","r","n","a","n","c","e"," ","r","o","l","e">>
        /\ re_search(PARAGRAPH_RE_at(v.row_text)) # <<>>
        /\ re_search(PARAGRAPH_RE_at(v.row_text))[2] <= v.best_match_index
        /\ v.reference_search_text = <<>>
        /\ v.paragraph_refs = <<>>
        /\ v.other_refs = <<>>
        /\ v.is_relevant

\* C15: for every processed row the other references are the standalone integer
\* tokens of the searched text, a token being a run of digits with no letter,
\* digit or underscore on either side, in the order of their first occurrence
\* and each once, without those that are a substring of a section reference, of
\* a paragraph reference or of a "page N" match of the row; so with "paragraph
\* 14" captured the unrelated tokens "1", "4" and "14" are left out
C15_OtherRefsAreUncapturedTokens ==
  \A r \in DOMAIN row_locals :
    LET v == row_locals[r]
        text == v.reference_search_text
        token_end(a) ==
          {b \in (a + 1)..Len(text) :
             /\ \A k \in (a + 1)..b : text[k] \in Digit
             /\ a = 0 \/ text[a] \notin Word
             /\ b = Len(text) \/ text[b + 1] \notin Word}
        captured == v.section_refs \o v.paragraph_refs \o v.found_pages
        is_captured(num) == \E k \in DOMAIN captured : contains(captured[k], num)
        upto[n \in 0..Len(text)] ==
          IF n = 0 THEN <<>>
          ELSE IF token_end(n - 1) = {} THEN upto[n - 1]
          ELSE LET num == SubSeq(text, n, Max(token_end(n - 1)))
               IN  IF is_captured(num) \/ in_list(num, upto[n - 1]) THEN upto[n - 1]
                   ELSE Append(upto[n - 1], num)
    IN  /\ v.other_refs = upto[Len(text)]
        /\ in_list(<<"p","a","r","a","g","r","a","p","h"," ","1","4">>, v.paragraph_refs)
           => /\ ~in_list(<<"1">>, v.other_refs)
              /\ ~in_list(<<"4">>, v.other_refs)
              /\ ~in_list(<<"1","4">>, v.other_refs)

\* a row with "paragraph 14" and the cell "1 12" has been processed: its tokens
\* "1" and "12" stand alone in the searched text, and only "12" is an other
\* reference
C15_DigitOfCapturedReference ==
  \E r \in DOMAIN row_locals :
    LET v == row_locals[r]
    IN  /\ v.paragraph_refs = << <<"p","a","r","a","g","r","a","p","h"," ","1","4">> >>
        /\ contains(v.reference_search_text, <<" ","1"," ","1","2">>)
        /\ in_list(<<"1","2">>, v.other_refs)
        /\ ~in_list(<<"1">>, v.other_refs)

\* C16: the entries a call of extract_esrs_tables has collected are in the order
\* of their source pages, pages the page loop has come to; until the call has
\* written them and returned, each step leaves the entries it finds as they are
\* and at their places, and adds new ones only behind them; processing a table
\* adds the entries of its relevant rows, in row order, with the page at hand as
\* source page; the tables of a page are processed in the order of the combined
\* list, lattice tables first, and the pages in ascending order
C16_RowsInPageTableRowOrder ==
  /\ [](/\ \A i, j \in DOMAIN all_extracted_data :
             i < j => all_extracted_data[i].Source_Page <= all_extracted_data[j].Source_Page
        /\ \A k \in DOMAIN all_extracted_data :
             \E n \in 1..page_pos : all_extracted_data[k].Source_Page = esrs_pages[n]
        /\ pc \in {"table", "page_done"} => tables = tables_lattice \o tables_stream)
  /\ [][/\ pc \notin {"next", "returned"}
           => /\ Len(all_extracted_data') >= Len(all_extracted_data)
              /\ SubSeq(all_extracted_data', 1, Len(all_extracted_data)) = all_extracted_data
        /\ pc # "table" => all_extracted_data' \in {all_extracted_data, <<>>}
        /\ pc = "table"
           => LET df == tables[table_pos]
                  locals == [n \in DOMAIN df |->
                               process_row(df[n], esrs_disclosure_texts,
                                           disclosure_to_code_mapping)]
                  kept == SelectSeq([n \in DOMAIN df |-> n],
                                    LAMBDA row : locals[row].is_relevant)
              IN  /\ all_extracted_data' =
                       all_extracted_data
                       \o [k \in DOMAIN kept |->
                             extracted_entry(locals[kept[k]], esrs_pages[page_pos])]
                  /\ \A k \in DOMAIN kept :
                       all_extracted_data'[Len(all_extracted_data) + k].Source_Row_Text
                         = row_text_of(df[kept[k]])
                  /\ pc' = "table" => table_pos' = table_pos + 1
                  /\ pc' # "table" => (pc' = "page_done" /\ table_pos = Len(tables))
        /\ (pc = "page_done" /\ pc' = "lattice")
           => /\ page_pos' = page_pos + 1
              /\ esrs_pages[page_pos'] > esrs_pages[page_pos]
        /\ (pc = "page_done" /\ pc' # "lattice")
           => (pc' = "finish" /\ page_pos = Len(esrs_pages))]_vars

\* the second selected page is done: the entries begin with one of the first
\* page and end with the entry of the lattice table of this page and then the
\* two entries of its first stream table, in row order
C16_TwoPagesBothFlavors ==
  LET n == Len(all_extracted_data)
  IN  /\ pc = "page_done"
      /\ page_pos = 2
      /\ tables = <<GovTable, ReferenceTable, NumberTable>>
      /\ n >= 4
      /\ all_extracted_data[1].Source_Page = esrs_pages[1]
      /\ all_extracted_data[n - 2].Source_Page = esrs_pages[2]
      /\ all_extracted_data[n - 2].Source_Row_Text = row_text_of(GovTable[1])
      /\ all_extracted_data[n - 1].Source_Row_Text = row_text_of(ReferenceTable[1])
      /\ all_extracted_data[n].Source_Row_Text = row_text_of(ReferenceTable[2])

\* C17: once load_dr_list has returned, the list of disclosure texts and the
\* mapping are what it has made of the reference list file, at every later point
\* of the run, and no step changes either of them: not the selection of pages,
\* the extraction of tables, the classification of rows, the writing of results,
\* the next document or the next selection
C17_ReferenceDataReadOnly ==
  /\ [](pc # "load"
          => /\ esrs_disclosure_texts = load_dr_list(dr_list_file).esrs_disclosure_texts
             /\ disclosure_to_code_mapping
                  = load_dr_list(dr_list_file).disclosure_to_code_mapping)
  /\ [][pc # "load"
         => /\ esrs_disclosure_texts' = esrs_disclosure_texts
            /\ disclosure_to_code_mapping' = disclosure_to_code_mapping
            /\ dr_list_file' = dr_list_file]_vars

\* with a loaded list a table is being processed in a later selection round:
\* the output files of both listed files are written and a selected file is
\* still to come
C17_LaterRoundWithLoadedList ==
  /\ pc = "table"
  /\ csv_files[1]
  /\ csv_files[2]
  /\ pdf_files_to_process # <<>>
  /\ esrs_disclosure_texts # <<>>
  /\ disclosure_to_code_mapping # <<>>

====
